---- MODULE Spec2Model ----
(***************************************************************************)
(* One execution of sendProfileKey (ts/jobs/helpers/sendProfileKey.ts).    *)
(*                                                                         *)
(* The function is async: it runs without interruption from one await to   *)
(* the next, so every action below is the code between two awaits.  While  *)
(* the execution is suspended at an await, other tasks of the application  *)
(* may change the conversation (StoreChange).                              *)
(*                                                                         *)
(* Helpers imported by the file but defined elsewhere in the repository    *)
(* (areAllErrorsUnregistered, maybeExpandErrors, handleMultipleSendErrors, *)
(* handleMessageSend, getUntrustedConversationIds, the conversation        *)
(* accessors) are modelled from the specification's description of them.   *)
(***************************************************************************)
EXTENDS Integers, Sequences, FiniteSets, TLC

\* ------------------------------------------------------------------ bounds
MaxMembers == 2      \* members of a group conversation
MaxTime == 1         \* timeRemaining ranges over 0..MaxTime
MaxRevision == 1     \* a supplied revision ranges over 0..MaxRevision
MaxAttempts == 2     \* attempts the job queue makes of one job

\* ------------------------------------------------------------------ values
NoRevision == -1     \* data.revision is undefined

Kinds == {"Direct", "GroupV1", "GroupV2"}

NoError == [tag |-> "none", errors |-> <<>>]
SendError == [tag |-> "SendError", errors |-> <<>>]
UntrustedError == [tag |-> "UntrustedError", errors |-> <<>>]

NoArgs == [errors |-> <<>>, isFinalAttempt |-> FALSE, timeRemaining |-> 0,
           toThrow |-> NoError]

NoTarget == [type |-> "none", recipients |-> {}, revision |-> NoRevision]

VARIABLES
  conversation,   \* ConversationModel: kind, profileSharing, accepted, unregistered, blocked,
                  \*   untrusted (recipients), revision (stored revision of a GroupV2)
  keyAvailable,   \* whether ourProfileKeyService holds a key
  job,            \* ConversationQueueJobBundle: isFinalAttempt, shouldContinue, timeRemaining
  data,           \* ProfileKeyJobData: revision
  pc,             \* where the execution is (start, the await it is suspended at, done)
  profileKey,     \* local: "unset", "none" (falsy) or "key"
  untrustedConversationIds,  \* local, line 74
  error,          \* local of the catch clause, line 151
  policyArgs,     \* the argument handleMultipleSendErrors was called with
  sendTarget,     \* what Transport was invoked with
  inFlight,       \* the transport call has started and not completed
  transportCalls, \* invocations of sendIndividualProto / sendToGroup
  notifierCalls,  \* calls of conversationStoppedByMissingVerification
  keyGets,        \* calls of ourProfileKeyService.get
  policyCalls,    \* calls of handleMultipleSendErrors
  anomalyLogged,  \* log.error of line 122 happened
  outcome,        \* "none", "Succeeded", "SkippedSilently", "Failed"
  outcomes,       \* number of outcomes delivered to the job queue
  thrown,         \* the error the promise rejected with
  marker,         \* retryability of a transport failure: "none", "retryable", "nonRetryable"
  delivered,      \* recipients this attempt's send was delivered to
  attempt,        \* number of the current attempt of the job
  deliveredBefore \* recipients earlier attempts of the job delivered to

vars == <<conversation, keyAvailable, job, data, pc, profileKey,
          untrustedConversationIds, error, policyArgs, sendTarget, inFlight,
          transportCalls, notifierCalls, keyGets, policyCalls, anomalyLogged,
          outcome, outcomes, thrown, marker, delivered, attempt,
          deliveredBefore>>

store == <<conversation, keyAvailable, job, data>>
effects == <<sendTarget, inFlight, transportCalls, notifierCalls, keyGets,
             policyCalls, anomalyLogged>>
locals == <<profileKey, untrustedConversationIds, error, policyArgs>>
result == <<outcome, outcomes, thrown, marker>>
queue == <<attempt, deliveredBefore>>

\* --------------------------------------------------- conversation helpers
isDirectConversation(c) == c.kind = "Direct"
isGroupV2(c) == c.kind = "GroupV2"
isGroup(c) == ~isDirectConversation(c)
isConversationAccepted(c) == c.accepted
isConversationUnregistered(c) == c.unregistered
isBlocked(c) == c.blocked
isNumber(r) == r # NoRevision

getRecipients(c) == IF isDirectConversation(c) THEN {1} ELSE 1..MaxMembers

getUntrustedConversationIds(c, recipients) == recipients \cap c.untrusted

\* Variant: the accessor hands out the conversation's own group info, with
\* the stored revision, instead of a descriptor built for the caller.
getGroupV2InfoShared(c) ==
  [present |-> isGroupV2(c),
   revision |-> IF isGroupV2(c) THEN c.revision ELSE NoRevision,
   shared |-> TRUE]

\* The GroupV2 descriptor of a conversation (absent unless it is GroupV2).
\* It is built for the caller (not shared with the conversation) and has no
\* revision field until the caller attaches one.
getGroupV2Info(c) ==
  [present |-> isGroupV2(c), revision |-> NoRevision, shared |-> FALSE]

\* ------------------------------------------------------- transport errors
\* What a recipient's delivery can report.
DeliveryStatus == {"ok", "UnregisteredRecipient", "TransientSendFailure"}

IndividualError(status) == [tag |-> status, errors |-> <<>>]

\* The per-recipient failures of one send, in recipient order.
FailuresOf(report, n) ==
  SelectSeq([i \in 1..n |-> IndividualError(report[i])],
            LAMBDA e : e.tag # "ok")

MultiSendError(report, n) ==
  [tag |-> "MultiSendError", errors |-> FailuresOf(report, n)]

\* Every error a send to the recipients 1..n can reject with: one fatal
\* error, or a multi-recipient failure set with at least one failure.
TransportErrors(n) ==
  {SendError} \cup
  {MultiSendError(report, n) :
     report \in {r \in [1..n -> DeliveryStatus] : \E i \in 1..n : r[i] # "ok"}}

\* The same failures, each with the recipients the send was delivered to:
\* nobody for the fatal error, the "ok" recipients of a partial failure.
TransportFailures(n) ==
  {[error |-> SendError, delivered |-> {}]} \cup
  {[error |-> MultiSendError(report, n),
    delivered |-> {i \in 1..n : report[i] = "ok"}] :
     report \in {r \in [1..n -> DeliveryStatus] : \E i \in 1..n : r[i] # "ok"}}

isMultiSendError(err) == err.tag = "MultiSendError"

\* Expands a multi-recipient aggregate into its individual errors.
maybeExpandErrors(err) ==
  IF isMultiSendError(err) THEN err.errors ELSE <<err>>

allUnregistered(errs) ==
  \A i \in 1..Len(errs) : errs[i].tag = "UnregisteredRecipient"

\* Ignore: a group fan-out all of whose individual failures are unregistered.
areAllErrorsUnregistered(c, err) ==
  /\ isGroup(c)
  /\ isMultiSendError(err)
  /\ allUnregistered(err.errors)

\* The retryability markers the shared retry policy may put on the failure.
\* Retry needs a non-final attempt with time left; when in addition every
\* failure is "unregistered" (a direct send) the policy may still give up.
RetryMarkers(args) ==
  IF args.isFinalAttempt \/ args.timeRemaining <= 0
    THEN {"nonRetryable"}
    ELSE IF allUnregistered(args.errors)
           THEN {"retryable", "nonRetryable"}
           ELSE {"retryable"}

\* Variant: the policy may also give up quietly and return to its caller.
handleMultipleSendErrorsMayReturn(args) ==
  {[throws |-> TRUE, error |-> args.toThrow, marker |-> m] :
     m \in RetryMarkers(args)}
  \cup {[throws |-> FALSE, error |-> NoError, marker |-> "none"]}

\* The ways a call of the policy can end.  Retry and Fail both end by
\* throwing the error given as toThrow, with the marker decided above.
handleMultipleSendErrors(args) ==
  {[throws |-> TRUE, error |-> args.toThrow, marker |-> m] :
     m \in RetryMarkers(args)}

\* ------------------------------------------------------------ initial state
Conversations ==
  {c \in [kind : Kinds, profileSharing : BOOLEAN, accepted : BOOLEAN,
          unregistered : BOOLEAN, blocked : BOOLEAN,
          untrusted : SUBSET (1..MaxMembers),
          revision : {NoRevision} \cup 0..MaxRevision] :
     /\ c.untrusted \subseteq getRecipients(c)
     /\ (c.revision # NoRevision) <=> isGroupV2(c)
     \* only a contact can be found unregistered
     /\ c.unregistered => isDirectConversation(c)}

Init ==
  /\ conversation \in Conversations
  /\ keyAvailable \in BOOLEAN
  /\ job \in [isFinalAttempt : BOOLEAN, shouldContinue : BOOLEAN,
              timeRemaining : 0..MaxTime]
  /\ data \in [revision : {NoRevision} \cup 0..MaxRevision]
  /\ pc = "start"
  /\ profileKey = "unset"
  /\ untrustedConversationIds = {}
  /\ error = NoError
  /\ policyArgs = NoArgs
  /\ sendTarget = NoTarget
  /\ inFlight = FALSE
  /\ transportCalls = 0
  /\ notifierCalls = 0
  /\ keyGets = 0
  /\ policyCalls = 0
  /\ anomalyLogged = FALSE
  /\ outcome = "none"
  /\ outcomes = 0
  /\ thrown = NoError
  /\ marker = "none"
  /\ delivered = {}
  /\ attempt = 1
  /\ deliveredBefore = {}

\* ------------------------------------------------------- ends of execution
\* The promise resolves: a normal return.
Return(o) ==
  /\ pc' = "done"
  /\ outcome' = o
  /\ outcomes' = outcomes + 1
  /\ UNCHANGED <<thrown, marker>>

\* The promise rejects with err.
Throw(err, m) ==
  /\ pc' = "done"
  /\ outcome' = "Failed"
  /\ outcomes' = outcomes + 1
  /\ thrown' = err
  /\ marker' = m

\* --------------------------------------------------------------- the steps
\* Variant: the shouldContinue check is missing.
EntryCancelledNoTimeCheck == ~conversation.profileSharing

\* Variant: the profileSharing check is missing.
EntryCancelledNoSharingCheck == ~job.shouldContinue

\* Lines 44-52: the checks made before the first await.
EntryCancelled == ~job.shouldContinue \/ ~conversation.profileSharing

\* Lines 44-54.
CheckEntry ==
  /\ pc = "start"
  /\ \/ /\ EntryCancelled
        /\ Return("SkippedSilently")
        /\ UNCHANGED keyGets
     \/ /\ ~EntryCancelled
        /\ keyGets' = keyGets + 1
        /\ pc' = "awaitProfileKey"
        /\ UNCHANGED result
  /\ UNCHANGED <<store, locals, sendTarget, inFlight, transportCalls,
                 notifierCalls, policyCalls, anomalyLogged, delivered, queue>>

\* Lines 54-65: ourProfileKeyService.get() resolved.
AfterProfileKey ==
  /\ pc = "awaitProfileKey"
  /\ profileKey' = IF keyAvailable THEN "key" ELSE "none"
  /\ \/ /\ ~keyAvailable
        /\ Return("SkippedSilently")
     \/ /\ keyAvailable
        /\ pc' = "awaitSendOptions"
        /\ UNCHANGED result
  /\ UNCHANGED <<store, untrustedConversationIds, error, policyArgs, effects,
                 delivered, queue>>

\* Variant: a single untrusted recipient does not block the send.
UntrustedBlocksOnlySeveral(ids) == Cardinality(ids) > 1

\* Variant: the direct-only checks are made before the trust check.
UntrustedBlocksAfterDirectChecks(ids) ==
  /\ ids # {}
  /\ ~(/\ isDirectConversation(conversation)
       /\ \/ ~isConversationAccepted(conversation)
          \/ isConversationUnregistered(conversation)
          \/ isBlocked(conversation))

\* Line 77: the send is blocked when some recipient is untrusted.
UntrustedBlocks(ids) == ids # {}

\* Variant: one notification per untrusted recipient.
NotifyEach(ids) == notifierCalls' = notifierCalls + Cardinality(ids)

\* Lines 78-81: one conversationStoppedByMissingVerification call naming
\* the conversation and all untrusted ids.
Notify(ids) == notifierCalls' = notifierCalls + 1

\* Variant: only a GroupV2 conversation takes the group branch.
DispatchKindV2Only(c) ==
  IF isGroupV2(c) THEN "GroupFanout" ELSE "Individual"

\* Lines 87 and 120: which dispatch branch the conversation takes.
DispatchKind(c) ==
  IF isDirectConversation(c) THEN "Individual" ELSE "GroupFanout"

\* Variant: the blocked check is missing.
DirectRefusalNoBlockedCheck(c) ==
  \/ ~isConversationAccepted(c)
  \/ isConversationUnregistered(c)

\* Lines 88-105: a direct conversation that must not be sent to.
DirectRefusal(c) ==
  \/ ~isConversationAccepted(c)
  \/ isConversationUnregistered(c)
  \/ isBlocked(c)

\* Variant: the supplied revision is attached without the checks of line 126.
GroupV2RevisionUnchecked(c, revision) == revision

\* Lines 125-128: the revision the GroupV2 descriptor carries at dispatch.
GroupV2Revision(c, revision) ==
  LET groupV2Info == getGroupV2Info(c)
  IN IF groupV2Info.present /\ isNumber(revision)
       THEN revision
       ELSE groupV2Info.revision

\* Variant: recipients an earlier attempt delivered to are left out.
TargetRecipientsPending(c) == getRecipients(c) \ deliveredBefore

\* Lines 110 and 141: the recipients of the target, taken from the
\* conversation at every attempt (there is no recipient map, lines 30-32).
TargetRecipients(c) == getRecipients(c)

\* Lines 125-128: the conversation after the assignment of line 127, which
\* writes to whatever object getGroupV2Info returned.
AfterRevisionAssignment(c, revision) ==
  LET groupV2Info == getGroupV2Info(c)
  IN IF groupV2Info.present /\ isNumber(revision) /\ groupV2Info.shared
       THEN [c EXCEPT !.revision = revision]
       ELSE c

\* Variant: the await is missing, the function returns with the send running.
AwaitSendMissing ==
  /\ pc' = "done"
  /\ outcome' = "Succeeded"
  /\ outcomes' = outcomes + 1
  /\ UNCHANGED <<thrown, marker>>

\* Lines 146-147: the function suspends until the send has completed.
AwaitSend ==
  /\ pc' = "awaitSend"
  /\ UNCHANGED result

\* Lines 113-119 and 130-143: Transport is invoked with the target.
InvokeTransport(target) ==
  /\ sendTarget' = target
  /\ transportCalls' = transportCalls + 1
  /\ inFlight' = TRUE

\* Lines 65-143: getSendOptions resolved; trust check, direct-only checks,
\* and for a group the dispatch itself.
AfterSendOptions ==
  /\ pc = "awaitSendOptions"
  /\ LET ids == getUntrustedConversationIds(conversation,
                                            getRecipients(conversation))
     IN
     /\ untrustedConversationIds' = ids
     /\ \/ /\ UntrustedBlocks(ids)
           /\ Notify(ids)
           /\ Throw(UntrustedError, "none")
           /\ UNCHANGED <<sendTarget, transportCalls, inFlight, anomalyLogged,
                          conversation>>
        \/ /\ ~UntrustedBlocks(ids)
           /\ DispatchKind(conversation) = "Individual"
           /\ DirectRefusal(conversation)
           /\ Return("SkippedSilently")
           /\ UNCHANGED <<sendTarget, transportCalls, inFlight, anomalyLogged,
                          notifierCalls, conversation>>
        \/ /\ ~UntrustedBlocks(ids)
           /\ DispatchKind(conversation) = "Individual"
           /\ ~DirectRefusal(conversation)
           /\ pc' = "awaitContentMessage"
           /\ UNCHANGED <<result, sendTarget, transportCalls, inFlight,
                          anomalyLogged, notifierCalls, conversation>>
        \/ /\ ~UntrustedBlocks(ids)
           /\ DispatchKind(conversation) = "GroupFanout"
           /\ anomalyLogged' =
                (isGroupV2(conversation) /\ ~isNumber(data.revision))
           /\ InvokeTransport(
                [type |-> "GroupFanout",
                 recipients |-> TargetRecipients(conversation),
                 revision |-> GroupV2Revision(conversation, data.revision)])
           /\ conversation' =
                AfterRevisionAssignment(conversation, data.revision)
           /\ AwaitSend
           /\ UNCHANGED notifierCalls
  /\ UNCHANGED <<keyAvailable, job, data, profileKey, error, policyArgs,
                 keyGets, policyCalls, delivered, queue>>

\* Lines 107-147: getContentMessage resolved; the direct dispatch.
AfterContentMessage ==
  /\ pc = "awaitContentMessage"
  /\ InvokeTransport([type |-> "Individual",
                      recipients |-> TargetRecipients(conversation),
                      revision |-> NoRevision])
  /\ AwaitSend
  /\ UNCHANGED <<store, locals, notifierCalls, keyGets, policyCalls,
                 anomalyLogged, delivered, queue>>

\* Lines 146-150 and 167: the send completed without error.
SendResolves ==
  /\ pc = "awaitSend"
  /\ inFlight
  /\ inFlight' = FALSE
  /\ delivered' = sendTarget.recipients
  /\ Return("Succeeded")
  /\ UNCHANGED <<store, locals, sendTarget, transportCalls, notifierCalls,
                 keyGets, policyCalls, anomalyLogged, queue>>

\* Variant: the early return of the catch clause is missing.
CatchNeverReturns(err) == FALSE

\* Variant: the catch clause does not look at the conversation kind.
CatchIgnoresKind(err) ==
  isMultiSendError(err) /\ allUnregistered(err.errors)

\* Variant: the catch clause does not look at the individual errors.
CatchIgnoresErrorKinds(err) ==
  isGroup(conversation) /\ isMultiSendError(err)

\* Line 152: the catch clause returns successfully instead of failing.
CatchReturnsSuccessfully(err) == areAllErrorsUnregistered(conversation, err)

\* Variant: timeRemaining is not passed on.
HandleArgsNoTime(err) ==
  [errors |-> maybeExpandErrors(err),
   isFinalAttempt |-> job.isFinalAttempt,
   timeRemaining |-> 0,
   toThrow |-> err]

\* Variant: isFinalAttempt is not passed on.
HandleArgsNoFinal(err) ==
  [errors |-> maybeExpandErrors(err),
   isFinalAttempt |-> FALSE,
   timeRemaining |-> job.timeRemaining,
   toThrow |-> err]

\* Variant: the first expanded error is thrown instead of the caught one.
HandleArgsThrowFirst(err) ==
  [errors |-> maybeExpandErrors(err),
   isFinalAttempt |-> job.isFinalAttempt,
   timeRemaining |-> job.timeRemaining,
   toThrow |-> Head(maybeExpandErrors(err))]

\* Lines 159-165: what the retry policy is called with.
HandleArgs(err) ==
  [errors |-> maybeExpandErrors(err),
   isFinalAttempt |-> job.isFinalAttempt,
   timeRemaining |-> job.timeRemaining,
   toThrow |-> err]

\* Lines 146-165: the send completed with an error; the catch clause.
SendRejects ==
  /\ pc = "awaitSend"
  /\ inFlight
  /\ inFlight' = FALSE
  /\ \E failure \in TransportFailures(Cardinality(sendTarget.recipients)) :
     LET err == failure.error IN
       /\ error' = err
       /\ delivered' = failure.delivered
       /\ \/ /\ CatchReturnsSuccessfully(err)
             /\ Return("Succeeded")
             /\ UNCHANGED <<policyArgs, policyCalls>>
          \/ /\ ~CatchReturnsSuccessfully(err)
             /\ policyArgs' = HandleArgs(err)
             /\ policyCalls' = policyCalls + 1
             /\ pc' = "awaitHandleErrors"
             /\ UNCHANGED result
  /\ UNCHANGED <<store, profileKey, untrustedConversationIds, sendTarget,
                 transportCalls, notifierCalls, keyGets, anomalyLogged, queue>>

\* Lines 159-167: handleMultipleSendErrors completed.  What it throws
\* propagates out of the catch clause; were it to return, the function
\* would run off its end and return normally.
AfterHandleMultipleSendErrors ==
  /\ pc = "awaitHandleErrors"
  /\ \E r \in handleMultipleSendErrors(policyArgs) :
       IF r.throws THEN Throw(r.error, r.marker) ELSE Return("Succeeded")
  /\ UNCHANGED <<store, locals, effects, delivered, queue>>

\* ------------------------------------------------------------ environment
\* Variant: the function also yields before its first check.
SuspendedOrStarting == pc # "done"

\* The awaits of lines 54, 65, 107, 147 and 159: where the execution yields.
Suspended ==
  pc \in {"awaitProfileKey", "awaitSendOptions", "awaitContentMessage",
          "awaitSend", "awaitHandleErrors"}

\* While the execution is suspended another task changes the conversation:
\* profile sharing is switched, or a recipient's identity changes trust.
StoreChange ==
  /\ Suspended
  /\ \/ conversation' =
          [conversation EXCEPT !.profileSharing = ~conversation.profileSharing]
     \/ \E m \in getRecipients(conversation) :
          conversation' =
            [conversation EXCEPT !.untrusted =
               IF m \in @ THEN @ \ {m} ELSE @ \cup {m}]
  /\ UNCHANGED <<keyAvailable, job, data, pc, locals, effects, result,
                 delivered, queue>>

\* The job queue runs a job again after an attempt that failed with a
\* retry-eligible marker: a new execution of the same job data on the same
\* conversation, with a new bundle whose time budget has not grown; the last
\* attempt the queue makes is a final attempt.
Requeue ==
  /\ pc = "done"
  /\ outcome = "Failed"
  /\ marker = "retryable"
  /\ attempt < MaxAttempts
  /\ attempt' = attempt + 1
  /\ deliveredBefore' = deliveredBefore \cup delivered
  /\ job' \in {j \in [isFinalAttempt : BOOLEAN, shouldContinue : BOOLEAN,
                      timeRemaining : 0..job.timeRemaining] :
                 attempt + 1 = MaxAttempts => j.isFinalAttempt}
  /\ pc' = "start"
  /\ profileKey' = "unset"
  /\ untrustedConversationIds' = {}
  /\ error' = NoError
  /\ policyArgs' = NoArgs
  /\ sendTarget' = NoTarget
  /\ inFlight' = FALSE
  /\ transportCalls' = 0
  /\ notifierCalls' = 0
  /\ keyGets' = 0
  /\ policyCalls' = 0
  /\ anomalyLogged' = FALSE
  /\ outcome' = "none"
  /\ outcomes' = 0
  /\ thrown' = NoError
  /\ marker' = "none"
  /\ delivered' = {}
  /\ UNCHANGED <<conversation, keyAvailable, data>>

\* ---------------------------------------------------------- specification
Step ==
  \/ CheckEntry
  \/ AfterProfileKey
  \/ AfterSendOptions
  \/ AfterContentMessage
  \/ SendResolves
  \/ SendRejects
  \/ AfterHandleMultipleSendErrors

Next == Step \/ StoreChange

\* One execution of sendProfileKey.
Spec == Init /\ [][Next]_vars

\* The attempts the job queue makes of one job.
QueueNext == Step \/ StoreChange \/ Requeue

QueueSpec == Init /\ [][QueueNext]_vars

\* Every external call returns or throws, so a suspended execution resumes.
LiveSpec == Spec /\ WF_vars(Step)

\* ================================================================ claims
Done == pc = "done"

\* The execution got past the three entry checks.
PassedGate == profileKey = "key"

\* Transport reported the error caught at line 151.
TransportFailed == error # NoError

\* The caught error is the Ignore case: a group fan-out, all unregistered.
IgnoreCase ==
  /\ isGroup(conversation)
  /\ isMultiSendError(error)
  /\ allUnregistered(error.errors)

\* The recipient of the conversation is unregistered, blocked or not accepted.
RecipientIneligible ==
  \/ conversation.unregistered
  \/ conversation.blocked
  \/ ~conversation.accepted

\* C1 as stated: every finished execution whose conversation has an
\* untrusted recipient has notified exactly once, failed, and not sent.
C1_AsStated ==
  (Done /\ conversation.untrusted # {}) =>
    (notifierCalls = 1 /\ outcome = "Failed" /\ transportCalls = 0)

\* C1 amended: an execution that passed the entry checks and whose trust
\* check found an untrusted recipient ends there: exactly one notifier call,
\* Failed with a thrown error, Transport never invoked.
C1_UntrustedBlocksSend ==
  untrustedConversationIds # {} =>
    /\ PassedGate
    /\ Done
    /\ notifierCalls = 1
    /\ outcome = "Failed"
    /\ thrown = UntrustedError
    /\ transportCalls = 0

C1_Witness ==
  /\ Done
  /\ untrustedConversationIds # {}
  /\ notifierCalls = 1
  /\ outcome = "Failed"

\* C2 as stated: every finished execution on a direct conversation that is
\* unregistered, blocked or not accepted skipped silently and did not send.
C2_AsStated ==
  (Done /\ conversation.kind = "Direct" /\ RecipientIneligible) =>
    (outcome = "SkippedSilently" /\ thrown = NoError /\ transportCalls = 0)

\* C2 amended: on a direct conversation that is unregistered, blocked or not
\* accepted, Transport is never invoked, and the execution skips silently
\* unless its trust check found an untrusted recipient (then it is Failed).
C2_DirectRefusalSkips ==
  (conversation.kind = "Direct" /\ RecipientIneligible) =>
    /\ transportCalls = 0
    /\ pc # "awaitContentMessage"
    /\ (Done /\ untrustedConversationIds = {}) =>
         (outcome = "SkippedSilently" /\ thrown = NoError)
    /\ (Done /\ untrustedConversationIds # {}) => outcome = "Failed"

C2_Witness ==
  /\ Done
  /\ PassedGate
  /\ isDirectConversation(conversation)
  /\ conversation.blocked
  /\ conversation.accepted
  /\ ~conversation.unregistered
  /\ untrustedConversationIds = {}
  /\ outcome = "SkippedSilently"

\* C3: with shouldContinue = false the execution returns normally as
\* SkippedSilently and Transport is never invoked, whatever the rest is.
C3_OutOfTimeSkips ==
  ~job.shouldContinue =>
    /\ transportCalls = 0
    /\ thrown = NoError
    /\ Done => outcome = "SkippedSilently"

C3_Witness ==
  /\ Done
  /\ ~job.shouldContinue
  /\ conversation.profileSharing
  /\ keyAvailable
  /\ conversation.untrusted # {}
  /\ outcome = "SkippedSilently"

\* C4: a group send whose reported failures are all UnregisteredRecipient
\* ends at Succeeded: normal return, retry policy not called, nothing thrown.
C4_AllUnregisteredGroupSucceeds ==
  IgnoreCase =>
    /\ Done
    /\ outcome = "Succeeded"
    /\ policyCalls = 0
    /\ thrown = NoError

C4_Witness ==
  /\ IgnoreCase
  /\ outcome = "Succeeded"
  /\ job.isFinalAttempt
  /\ job.timeRemaining = 0

\* C5: on a direct conversation a failure made only of unregistered errors
\* is not ignored: the retry policy is called and the outcome is not Succeeded.
C5_DirectUnregisteredNotIgnored ==
  (/\ isDirectConversation(conversation)
   /\ isMultiSendError(error)
   /\ allUnregistered(error.errors)) =>
    /\ policyCalls = 1
    /\ outcome # "Succeeded"
    /\ Done => outcome = "Failed"

C5_Witness ==
  /\ Done
  /\ isDirectConversation(conversation)
  /\ isMultiSendError(error)
  /\ allUnregistered(error.errors)
  /\ outcome = "Failed"

\* C6: a group send with a failure that is not UnregisteredRecipient, on a
\* non-final attempt with time remaining, ends at Failed marked retryable.
C6_GroupFailureRetryable ==
  (/\ Done
   /\ isGroup(conversation)
   /\ TransportFailed
   /\ ~allUnregistered(maybeExpandErrors(error))
   /\ ~job.isFinalAttempt
   /\ job.timeRemaining > 0) =>
    (outcome = "Failed" /\ marker = "retryable")

C6_Witness ==
  /\ Done
  /\ isGroup(conversation)
  /\ isMultiSendError(error)
  /\ ~allUnregistered(error.errors)
  /\ ~job.isFinalAttempt
  /\ job.timeRemaining > 0
  /\ marker = "retryable"

\* C7: on a final attempt a transport error other than the all-unregistered
\* group case ends at Failed marked non-retryable, whatever the errors are.
C7_FinalAttemptNotRetryable ==
  (Done /\ job.isFinalAttempt /\ TransportFailed /\ ~IgnoreCase) =>
    (outcome = "Failed" /\ marker = "nonRetryable")

C7_Witness ==
  /\ Done
  /\ job.isFinalAttempt
  /\ job.timeRemaining > 0
  /\ TransportFailed
  /\ ~IgnoreCase
  /\ marker = "nonRetryable"

\* C8: a transport error that is not the Ignore case never ends in a normal
\* return: the outcome is never Succeeded and, once done, it is Failed with
\* an error thrown, for every isFinalAttempt and timeRemaining.
C8_TransportErrorFails ==
  (TransportFailed /\ ~IgnoreCase) =>
    /\ outcome \notin {"Succeeded", "SkippedSilently"}
    /\ Done => (outcome = "Failed" /\ thrown # NoError)

C8_Witness ==
  /\ Done
  /\ TransportFailed
  /\ ~IgnoreCase
  /\ job.timeRemaining = 0
  /\ ~job.isFinalAttempt
  /\ outcome = "Failed"

\* C9: when the execution fails because of a transport error, the error
\* thrown to the job queue is the error caught from the transport call.
C9_OriginalErrorSurfaced ==
  (Done /\ TransportFailed /\ outcome = "Failed") =>
    (thrown = error /\ policyArgs.toThrow = error)

C9_Witness ==
  /\ Done
  /\ isMultiSendError(error)
  /\ Len(error.errors) > 1
  /\ outcome = "Failed"
  /\ thrown = error

\* C10: an execution has no outcome while it runs and exactly one once it
\* is done, never a normal return together with a thrown error, never an
\* outcome while the transport call is still running; and it terminates.
OneOutcome ==
  /\ outcome \in {"none", "Succeeded", "SkippedSilently", "Failed"}
  /\ outcomes = (IF Done THEN 1 ELSE 0)
  /\ (outcome = "none") <=> ~Done
  /\ outcome \in {"Succeeded", "SkippedSilently"} => thrown = NoError
  /\ thrown # NoError => outcome = "Failed"
  /\ outcome # "none" => ~inFlight
  /\ inFlight => pc = "awaitSend"

C10_ExactlyOneOutcome == []OneOutcome /\ (~Done ~> Done)

C10_Witness ==
  /\ Done
  /\ outcomes = 1
  /\ transportCalls = 1
  /\ ~inFlight
  /\ outcome = "Failed"
  /\ marker = "retryable"

\* C11: the GroupV2 descriptor of a group dispatch carries a revision only
\* when the conversation is GroupV2 and a numeric revision was supplied, and
\* then the supplied one; a GroupV2 dispatch without a supplied revision
\* carries none, logs the anomaly, and still invokes Transport.
C11_RevisionOnlyWhenSupplied ==
  /\ sendTarget.type = "GroupFanout" =>
       /\ (sendTarget.revision # NoRevision) <=>
            (conversation.kind = "GroupV2" /\ data.revision # NoRevision)
       /\ sendTarget.revision # NoRevision =>
            sendTarget.revision = data.revision
       /\ anomalyLogged <=>
            (conversation.kind = "GroupV2" /\ data.revision = NoRevision)
  /\ (/\ Done
      /\ PassedGate
      /\ untrustedConversationIds = {}
      /\ conversation.kind = "GroupV2"
      /\ data.revision = NoRevision) =>
       /\ transportCalls = 1
       /\ anomalyLogged
       /\ sendTarget.revision = NoRevision
       /\ thrown # UntrustedError
       /\ outcome # "SkippedSilently"

C11_Witness ==
  /\ Done
  /\ conversation.kind = "GroupV2"
  /\ data.revision = NoRevision
  /\ transportCalls = 1
  /\ anomalyLogged
  /\ sendTarget.revision = NoRevision
  /\ outcome = "Succeeded"

\* C12: the blocking notification is made at most once per execution; an
\* execution that made it has not invoked Transport and is Failed with an
\* error thrown; no skipped or succeeded execution has made it.
C12_NotifierAtMostOnce ==
  /\ notifierCalls <= 1
  /\ notifierCalls > 0 =>
       /\ transportCalls = 0
       /\ Done
       /\ outcome = "Failed"
       /\ thrown # NoError
  /\ outcome \in {"SkippedSilently", "Succeeded"} => notifierCalls = 0

C12_Witness ==
  /\ Done
  /\ notifierCalls = 1
  /\ Cardinality(untrustedConversationIds) > 1
  /\ transportCalls = 0
  /\ outcome = "Failed"

\* The execution ended at one of the three entry checks.
GateSkip == Done /\ ~PassedGate

\* C13: the entry checks run in the order shouldContinue, sharing enabled,
\* key available and stop at the first that fails: the key provider is asked
\* at most once, and not at all when shouldContinue is false or sharing is
\* disabled at entry; a gate skip is a normal return with no notifier call,
\* no Transport invocation and nothing thrown.
C13_GateOrder ==
  /\ [](/\ keyGets <= 1
        /\ ~job.shouldContinue => keyGets = 0
        /\ GateSkip =>
             /\ outcome = "SkippedSilently"
             /\ notifierCalls = 0
             /\ transportCalls = 0
             /\ thrown = NoError)
  /\ [][(pc = "start" /\ (~job.shouldContinue \/ ~conversation.profileSharing))
          => (keyGets' = 0 /\ pc' = "done" /\ outcome' = "SkippedSilently")]_vars

C13_Witness ==
  /\ Done
  /\ job.shouldContinue
  /\ ~conversation.profileSharing
  /\ keyAvailable
  /\ keyGets = 0
  /\ outcome = "SkippedSilently"

\* C14: the trust check comes after the entry checks and before the
\* direct-only checks: past the gate, a direct conversation that is both
\* untrusted and blocked, unregistered or not accepted is Failed with one
\* notifier call; a gate skip makes no trust check, no notifier call and
\* throws nothing, untrusted recipients or not.
C14_CheckPrecedence ==
  /\ (/\ Done
      /\ PassedGate
      /\ conversation.kind = "Direct"
      /\ RecipientIneligible
      /\ untrustedConversationIds # {}) =>
       /\ outcome = "Failed"
       /\ thrown = UntrustedError
       /\ notifierCalls = 1
  /\ GateSkip =>
       /\ untrustedConversationIds = {}
       /\ notifierCalls = 0
       /\ thrown = NoError
       /\ outcome = "SkippedSilently"

C14_Witness ==
  /\ Done
  /\ PassedGate
  /\ conversation.kind = "Direct"
  /\ conversation.blocked
  /\ untrustedConversationIds # {}
  /\ notifierCalls = 1
  /\ outcome = "Failed"

\* C15: Transport is invoked at most once per execution, with an Individual
\* target exactly for a Direct conversation and a group fan-out target for
\* the others; an execution that reached the dispatch has invoked it once,
\* and when the send reports success it ends at Succeeded without the catch
\* clause or the retry policy.
C15_SingleDispatch ==
  /\ transportCalls <= 1
  /\ (transportCalls = 1) <=> (sendTarget # NoTarget)
  /\ pc \in {"awaitSend", "awaitHandleErrors"} => transportCalls = 1
  /\ transportCalls = 1 =>
       /\ sendTarget.type \in {"Individual", "GroupFanout"}
       /\ (sendTarget.type = "Individual") <=> (conversation.kind = "Direct")
  /\ (Done /\ transportCalls = 1 /\ error = NoError) =>
       /\ outcome = "Succeeded"
       /\ policyCalls = 0
       /\ thrown = NoError

C15_Witness ==
  /\ Done
  /\ conversation.kind = "Direct"
  /\ transportCalls = 1
  /\ sendTarget.type = "Individual"
  /\ error = NoError
  /\ outcome = "Succeeded"

\* C18: an attempt after the first builds its target from the conversation's
\* full recipient set: a retry after a partial failure sends again to every
\* recipient, those an earlier attempt delivered to included.
C18_RetrySendsToAll ==
  (attempt > 1 /\ transportCalls = 1) =>
    /\ sendTarget.recipients = getRecipients(conversation)
    /\ deliveredBefore \subseteq sendTarget.recipients

C18_Witness ==
  /\ attempt = 2
  /\ transportCalls = 1
  /\ deliveredBefore # {}
  /\ deliveredBefore # getRecipients(conversation)
  /\ deliveredBefore \subseteq sendTarget.recipients
  /\ Done
  /\ delivered = sendTarget.recipients

\* A step of another task: the conversation changes, the execution stays
\* where it is.
OtherTaskRan == conversation' # conversation /\ pc' = pc

\* C16 as stated: the Transport call is the only place where another task
\* can run during an execution.
C16_AsStated == [][OtherTaskRan => pc = "awaitSend"]_vars

\* C16 amended: the execution yields at five awaits (key provider, send
\* options, content-message construction, Transport call, retry policy) and
\* nowhere else: no other task runs before the entry checks, and the trust
\* check, the direct-only checks and the group dispatch are one step, as is
\* the handling of a caught error up to the call of the retry policy.
C16_SuspensionPoints ==
  /\ [][OtherTaskRan =>
          pc \in {"awaitProfileKey", "awaitSendOptions", "awaitContentMessage",
                  "awaitSend", "awaitHandleErrors"}]_vars
  /\ [][(transportCalls' = transportCalls + 1
           /\ sendTarget'.type = "GroupFanout") =>
          (pc = "awaitSendOptions" /\ conversation'.untrusted = {})]_vars
  /\ [](/\ pc \in {"start", "awaitProfileKey", "awaitSendOptions",
                   "awaitContentMessage", "awaitSend", "awaitHandleErrors",
                   "done"}
        /\ pc = "start" => keyGets = 0
        /\ pc = "awaitHandleErrors" => (error # NoError /\ policyCalls = 1))

C16_Witness ==
  /\ pc = "awaitContentMessage"
  /\ PassedGate
  /\ untrustedConversationIds = {}
  /\ conversation.untrusted # {}
  /\ ~conversation.profileSharing

\* C17: no step of the execution changes the conversation (attributes,
\* trust, stored revision) or the profile key; only other tasks do.
C17_NoStoreWrites ==
  [][pc' # pc =>
       (conversation' = conversation /\ keyAvailable' = keyAvailable)]_vars

C17_Witness ==
  /\ Done
  /\ conversation.kind = "GroupV2"
  /\ data.revision # NoRevision
  /\ conversation.revision # data.revision
  /\ transportCalls = 1
  /\ sendTarget.revision = data.revision

\* C19: at the moment Transport is invoked no recipient of the conversation
\* is untrusted, whatever other tasks did while the execution was suspended.
C19_NoUntrustedAtDispatch ==
  [][transportCalls' = transportCalls + 1 =>
       conversation'.untrusted = {}]_vars

\* C20: at the moment Transport is invoked the conversation's profileSharing
\* flag is true, whatever other tasks did while the execution was suspended.
C20_SharingAtDispatch ==
  [][transportCalls' = transportCalls + 1 =>
       conversation'.profileSharing]_vars

====
